---- MODULE Spec2Model ----
(***************************************************************************)
(* Model of supabase/functions/weekly-email/index.ts: one invocation of    *)
(* the Deno.serve handler (window computation, the two store queries, the  *)
(* empty-recipient branch, rendering, the sendEmail fan-out joined by      *)
(* Promise.allSettled, the aggregated response and the catch block).       *)
(*                                                                         *)
(* Dates.  A JavaScript Date is a time value; setDate keeps the time       *)
(* within the day and toISOString().split('T')[0] drops it, so a Date is   *)
(* modelled by its day number (days since 1970-01-01).  The Edge runtime   *)
(* the function is deployed on runs in UTC, so the local-time accessors    *)
(* getDay/getDate/setDate read the same calendar as toISOString.  The      *)
(* calendar operators follow ECMA-262 (Day Number, Year Number, Month      *)
(* Number, Date Number, Week Day, MakeDay).  An ISO date string            *)
(* "YYYY-MM-DD" is the triple <<YYYY, MM, DD>>.                            *)
(***************************************************************************)
EXTENDS Integers, Sequences, FiniteSets

VARIABLES
    pc,                 \* position of the handler
    method,             \* req.method
    today,              \* new Date() at line 54, as a day number
    table,              \* rows of the store's "reservations" table
    startDate,          \* line 60
    endDate,            \* line 61
    reservationsQuery,  \* "idle" | "inflight" | "done" | "error"
    reservations,       \* data of the reservations query
    usersQuery,         \* "idle" | "inflight" | "done" | "error"
    users,              \* data of the users query
    emailContent,       \* line 92
    emailPromises,      \* line 95: state of each promise, in map order
    sendLog,            \* line 208: the recipients sendEmail was called for
    responses           \* the Response objects the handler returned

vars == <<pc, method, today, table, startDate, endDate, reservationsQuery,
          reservations, usersQuery, users, emailContent, emailPromises,
          sendLog, responses>>

----------------------------------------------------------------------------
(* Bounds *)

\* first invocation day of the February range: Thursday 2024-02-22
FirstDayFeb == 19775
\* first invocation day of the December range: Thursday 2024-12-26
FirstDayDec == 20083
\* invocation days taken from each range
NumDays == 8
\* most rows in the reservations table
MaxRows == 2
\* most rows in the users table
MaxUsers == 3

Todays ==
    (FirstDayFeb .. FirstDayFeb + NumDays - 1) \cup
    (FirstDayDec .. FirstDayDec + NumDays - 1)

Methods == {"OPTIONS", "POST"}

\* candidate rows of the reservations table (interface Reservation)
ReservationRows ==
    { [date_res |-> <<2024, 2, 25>>, horaire |-> "nuit",       nom |-> "Ayari",
       prenom |-> "Sami",  notes |-> <<>>],
      [date_res |-> <<2024, 2, 26>>, horaire |-> "apres-midi", nom |-> "Ben Ali",
       prenom |-> "Ines",  notes |-> <<"DJ", "200 invites">>],
      [date_res |-> <<2024, 2, 29>>, horaire |-> "apres-midi", nom |-> "Chebbi",
       prenom |-> "Nour",  notes |-> <<>>],
      [date_res |-> <<2024, 2, 29>>, horaire |-> "nuit",       nom |-> "Dridi",
       prenom |-> "Omar",  notes |-> <<"traiteur">>],
      [date_res |-> <<2024, 3, 3>>,  horaire |-> "nuit",       nom |-> "Essid",
       prenom |-> "Leila", notes |-> <<>>],
      [date_res |-> <<2024, 3, 4>>,  horaire |-> "apres-midi", nom |-> "Ferjani",
       prenom |-> "Karim", notes |-> <<>>] }

Tables == { T \in SUBSET ReservationRows : Cardinality(T) <= MaxRows }

----------------------------------------------------------------------------
(* ECMAScript Date arithmetic on day numbers *)

DaysInYear(y) ==
    IF y % 4 # 0 THEN 365
    ELSE IF y % 100 # 0 THEN 366
    ELSE IF y % 400 # 0 THEN 365
    ELSE 366

DayFromYear(y) ==
    365 * (y - 1970) + ((y - 1969) \div 4) - ((y - 1901) \div 100)
        + ((y - 1601) \div 400)

YearFromTime[t \in Nat] ==
    CHOOSE y \in (1970 + (t \div 366)) .. (1970 + (t \div 365)) :
        DayFromYear(y) <= t /\ t < DayFromYear(y + 1)

InLeapYear[t \in Nat] == IF DaysInYear(YearFromTime[t]) = 366 THEN 1 ELSE 0

DayWithinYear[t \in Nat] == t - DayFromYear(YearFromTime[t])

\* day within the year on which month m (0 = January, 12 = next January) starts
MonthStart(m, leap) ==
    <<0, 31, 59, 90, 120, 151, 181, 212, 243, 273, 304, 334, 365>>[m + 1]
        + (IF m >= 2 THEN leap ELSE 0)

\* 0 = January, ... 11 = December
MonthFromTime[t \in Nat] ==
    CHOOSE m \in 0 .. 11 :
        /\ MonthStart(m, InLeapYear[t]) <= DayWithinYear[t]
        /\ DayWithinYear[t] < MonthStart(m + 1, InLeapYear[t])

DateFromTime[t \in Nat] ==
    DayWithinYear[t] - MonthStart(MonthFromTime[t], InLeapYear[t]) + 1

\* 0 = Sunday, 1 = Monday, ... 6 = Saturday
WeekDay[t \in Nat] == (t + 4) % 7

MakeDay(year, month, date) ==
    LET ym == year + (month \div 12)
        mn == month % 12
        leap == IF DaysInYear(ym) = 366 THEN 1 ELSE 0
    IN  DayFromYear(ym) + MonthStart(mn, leap) + date - 1

getDate(t) == DateFromTime[t]

getDay(t) == WeekDay[t]

\* the number of days of the month t lies in
DaysInMonthOf[t \in Nat] ==
    MonthStart(MonthFromTime[t] + 1, InLeapYear[t])
        - MonthStart(MonthFromTime[t], InLeapYear[t])

\* Date.prototype.setDate without the carry into the next month
SetDateClamped(t, dt) ==
    MakeDay(YearFromTime[t], MonthFromTime[t],
            IF dt > DaysInMonthOf[t] THEN DaysInMonthOf[t] ELSE dt)

\* Date.prototype.setDate: a day-of-month past the month's end carries over
setDate(t, dt) == MakeDay(YearFromTime[t], MonthFromTime[t], dt)

\* toISOString().split('T')[0]
toISODate(t) == <<YearFromTime[t], MonthFromTime[t] + 1, DateFromTime[t]>>

\* new Date("YYYY-MM-DD")
parseISODate(s) == MakeDay(s[1], s[2] - 1, s[3])

----------------------------------------------------------------------------
(* Window computation, lines 54-61 *)

\* a || b on numbers: b when a is 0
OrElse(a, b) == IF a = 0 THEN b ELSE a

\* the argument of nextMonday.setDate at line 56; % binds tighter than +,
\* and + tighter than ||
NextMondayArg(t) == OrElse(getDate(t) + ((7 - getDay(t) + 1) % 7), 7)

nextMonday(t) == setDate(t, NextMondayArg(t))

nextSunday(t) == setDate(nextMonday(t), getDate(nextMonday(t)) + 6)

----------------------------------------------------------------------------
(* The store *)

DateLE(a, b) ==
    \/ a[1] < b[1]
    \/ a[1] = b[1] /\ a[2] < b[2]
    \/ a[1] = b[1] /\ a[2] = b[2] /\ a[3] <= b[3]

DateLT(a, b) == DateLE(a, b) /\ a # b

\* .lte('date_res', endDate) taken as a strict comparison
WindowFilterExclusiveEnd(row, start, end) ==
    DateLE(start, row.date_res) /\ DateLT(row.date_res, end)

\* .gte('date_res', startDate).lte('date_res', endDate)
WindowFilter(row, start, end) ==
    DateLE(start, row.date_res) /\ DateLE(row.date_res, end)

\* .order('date_res', { ascending: true }): every listing of the rows in
\* ascending date order (rows of the same date come in any order)
OrderedListings(rows) ==
    { s \in [1 .. Cardinality(rows) -> rows] :
        /\ \A i, j \in DOMAIN s : i # j => s[i] # s[j]
        /\ \A i, j \in DOMAIN s : i < j => DateLE(s[i].date_res, s[j].date_res) }

ReservationsSelect(tbl, start, end) ==
    OrderedListings({ row \in tbl : WindowFilter(row, start, end) })

\* rows of the users table (interface User): the i-th row has e-mail i
UserRows(n) == [i \in 1 .. n |-> [email |-> i]]

----------------------------------------------------------------------------
(* Responses *)

corsHeaders ==
    { "Access-Control-Allow-Origin", "Access-Control-Allow-Methods",
      "Access-Control-Allow-Headers" }

JsonHeaders == corsHeaders \cup {"Content-Type"}

\* lines 40-43
OptionsResponse == [status |-> 200, headers |-> corsHeaders]

\* lines 85-88
NoUsersResponse ==
    [status |-> 200, headers |-> JsonHeaders,
     body |-> [message |-> "Aucun utilisateur trouve"]]

\* lines 115-121
ErrorResponse(msg) ==
    [status |-> 500, headers |-> JsonHeaders, body |-> [error |-> msg]]

Count(results, st) == Cardinality({ i \in DOMAIN results : results[i] = st })

\* successCount taken as the number of results
SuccessCountAll(results) == Len(results)

\* line 98
SuccessCount(results) == Count(results, "fulfilled")

\* line 99
FailureCount(results) == Count(results, "rejected")

\* data || []
OrEmpty(data) == IF data.isNull THEN <<>> ELSE data.rows

\* lines 101-111; reservations?.length || 0 is the length of (reservations || [])
DigestResponse(results, resv) ==
    [status |-> 200, headers |-> JsonHeaders,
     body |-> [message      |-> "E-mails hebdomadaires envoyes",
               success      |-> SuccessCount(results),
               failures     |-> FailureCount(results),
               reservations |-> Len(OrEmpty(resv))]]

----------------------------------------------------------------------------
(* Rendering, lines 125-199 *)

WeekDayNames ==
    <<"dimanche", "lundi", "mardi", "mercredi", "jeudi", "vendredi", "samedi">>

MonthNames ==
    <<"janvier", "fevrier", "mars", "avril", "mai", "juin", "juillet", "aout",
      "septembre", "octobre", "novembre", "decembre">>

\* lines 126-133: new Date(dateStr).toLocaleDateString('fr-FR', ...)
formatDate(dateStr) ==
    LET t == parseISODate(dateStr)
    IN  [weekday |-> WeekDayNames[WeekDay[t] + 1],
         day     |-> DateFromTime[t],
         month   |-> MonthNames[MonthFromTime[t] + 1],
         year    |-> YearFromTime[t]]

\* lines 135-137
formatHoraire(horaire) ==
    IF horaire = "nuit" THEN "Soiree (20h30-01h00)" ELSE "Apres-midi (15h30-20h00)"

\* lines 175-184: one <div class="reservation"> per reservation; the notes
\* div is present when notes is non-empty, its lines joined by the bullet
ReservationBlock(r) ==
    [kind     |-> "reservation",
     date     |-> formatDate(r.date_res),
     horaire  |-> formatHoraire(r.horaire),
     client   |-> <<r.prenom, r.nom>>,
     hasNotes |-> r.notes # <<>>,
     notes    |-> r.notes]

\* lines 166-172
NothingScheduledBlock == [kind |-> "aucune"]

NotRendered == [rendered |-> FALSE]

generateWeeklyEmailContent(resv, start, end) ==
    [rendered |-> TRUE,
     period   |-> <<formatDate(start), formatDate(end)>>,
     blocks   |-> IF Len(resv) = 0
                  THEN <<NothingScheduledBlock>>
                  ELSE [i \in 1 .. Len(resv) |-> ReservationBlock(resv[i])]]

----------------------------------------------------------------------------
(* Control flow of the handler *)

NullData == [isNull |-> TRUE, rows |-> <<>>]

Data(rows) == [isNull |-> FALSE, rows |-> rows]

\* what the reservations query can settle with
ReservationsOutcomes(tbl, start, end) ==
    { [error |-> TRUE, data |-> NullData] } \cup
    { [error |-> FALSE, data |-> Data(s)] : s \in ReservationsSelect(tbl, start, end) }

\* what the users query can settle with
UsersOutcomes ==
    { [error |-> TRUE, data |-> NullData], [error |-> FALSE, data |-> NullData] } \cup
    { [error |-> FALSE, data |-> Data(UserRows(n))] : n \in 0 .. MaxUsers }

\* the error checks skipped
ThrowsNever(outcome) == FALSE

\* lines 71 and 80: if (error) throw
Throws(outcome) == outcome.error

\* the length test left out
NoUsersNullOnly(u) == u.isNull

\* line 84: !users || users.length === 0
NoUsers(u) == u.isNull \/ Len(u.rows) = 0

\* a map that stops one short
RecipientsButLast(u) ==
    IF Len(u.rows) = 0 THEN <<>> ELSE SubSeq(u.rows, 1, Len(u.rows) - 1)

\* line 95: users.map visits every row
Recipients(u) == u.rows

Settled(st) == st \in {"fulfilled", "rejected"}

\* a join that resumes at the first settled promise
JoinReadyAny(ps) == ps = <<>> \/ \E i \in DOMAIN ps : Settled(ps[i])

\* a join that waits for every promise to fulfil
JoinReadyFulfilled(ps) == \A i \in DOMAIN ps : ps[i] = "fulfilled"

\* line 96: Promise.allSettled resolves once every promise has settled
JoinReady(ps) == \A i \in DOMAIN ps : Settled(ps[i])

\* Promise.all: rejects when a promise rejects
JoinRejectsLikeAll(ps) == \E i \in DOMAIN ps : ps[i] = "rejected"

\* line 96: Promise.allSettled never rejects
JoinRejects(ps) == FALSE

\* lines 201-210: the call logged by sendEmail
SendCall(user, content, type) ==
    [to      |-> user.email,
     subject |-> IF type = "weekly" THEN "Reservations de la semaine prochaine"
                 ELSE "Reservations du mois prochain",
     content |-> content]

Init ==
    /\ pc = "request"
    /\ method \in Methods
    /\ today \in Todays
    /\ table \in Tables
    /\ startDate = <<>>
    /\ endDate = <<>>
    /\ reservationsQuery = "idle"
    /\ reservations = NullData
    /\ usersQuery = "idle"
    /\ users = NullData
    /\ emailContent = NotRendered
    /\ emailPromises = <<>>
    /\ sendLog = <<>>
    /\ responses = <<>>

\* lines 39-44
Preflight ==
    /\ pc = "request"
    /\ method = "OPTIONS"
    /\ responses' = Append(responses, OptionsResponse)
    /\ pc' = "done"
    /\ UNCHANGED <<method, today, table, startDate, endDate, reservationsQuery,
                   reservations, usersQuery, users, emailContent, emailPromises,
                   sendLog>>

\* lines 46-69: the window, then the reservations query is issued
ComputeWindow ==
    /\ pc = "request"
    /\ method # "OPTIONS"
    /\ startDate' = toISODate(nextMonday(today))
    /\ endDate' = toISODate(nextSunday(today))
    /\ reservationsQuery' = "inflight"
    /\ pc' = "awaitReservations"
    /\ UNCHANGED <<method, today, table, reservations, usersQuery, users,
                   emailContent, emailPromises, sendLog, responses>>

\* lines 64-78 and 113-122: the reservations query settles; on an error the
\* handler throws and the catch block responds, else the users query is issued
ReservationsSettled ==
    /\ pc = "awaitReservations"
    /\ \E outcome \in ReservationsOutcomes(table, startDate, endDate) :
        /\ reservationsQuery' = IF outcome.error THEN "error" ELSE "done"
        /\ reservations' = outcome.data
        /\ IF Throws(outcome)
           THEN /\ responses' =
                      Append(responses, ErrorResponse("Erreur recuperation reservations"))
                /\ pc' = "done"
                /\ UNCHANGED usersQuery
           ELSE /\ usersQuery' = "inflight"
                /\ pc' = "awaitUsers"
                /\ UNCHANGED responses
    /\ UNCHANGED <<method, today, table, startDate, endDate, users, emailContent,
                   emailPromises, sendLog>>

\* lines 76-89 and 113-122: the users query settles; error, no user, or on
\* to rendering
UsersSettled ==
    /\ pc = "awaitUsers"
    /\ \E outcome \in UsersOutcomes :
        /\ usersQuery' = IF outcome.error THEN "error" ELSE "done"
        /\ users' = outcome.data
        /\ IF Throws(outcome)
           THEN /\ responses' =
                      Append(responses, ErrorResponse("Erreur recuperation utilisateurs"))
                /\ pc' = "done"
           ELSE IF NoUsers(outcome.data)
           THEN /\ responses' = Append(responses, NoUsersResponse)
                /\ pc' = "done"
           ELSE /\ pc' = "render"
                /\ UNCHANGED responses
    /\ UNCHANGED <<method, today, table, startDate, endDate, reservationsQuery,
                   reservations, emailContent, emailPromises, sendLog>>

\* line 92
Render ==
    /\ pc = "render"
    /\ emailContent' =
           generateWeeklyEmailContent(OrEmpty(reservations), startDate, endDate)
    /\ pc' = "map"
    /\ UNCHANGED <<method, today, table, startDate, endDate, reservationsQuery,
                   reservations, usersQuery, users, emailPromises, sendLog, responses>>

\* line 95: one step of users.map, a call of sendEmail (lines 201-231) that
\* returns a promise
SendEmail ==
    /\ pc = "map"
    /\ Len(emailPromises) < Len(Recipients(users))
    /\ LET user == Recipients(users)[Len(emailPromises) + 1]
       IN  sendLog' = Append(sendLog, SendCall(user, emailContent, "weekly"))
    /\ emailPromises' = Append(emailPromises, "pending")
    /\ UNCHANGED <<pc, method, today, table, startDate, endDate, reservationsQuery,
                   reservations, usersQuery, users, emailContent, responses>>

\* line 96: the map is over and the handler awaits Promise.allSettled
AwaitAllSettled ==
    /\ pc = "map"
    /\ Len(emailPromises) = Len(Recipients(users))
    /\ pc' = "allSettled"
    /\ UNCHANGED <<method, today, table, startDate, endDate, reservationsQuery,
                   reservations, usersQuery, users, emailContent, emailPromises,
                   sendLog, responses>>

\* lines 201-231: the promise of one sendEmail call settles.  The body as
\* written only logs and fulfils; it rejects when the transport it stands
\* for fails (lines 227-229) or when its body throws.
Settle(i) ==
    /\ pc = "allSettled"
    /\ i \in DOMAIN emailPromises
    /\ emailPromises[i] = "pending"
    /\ \E st \in {"fulfilled", "rejected"} :
           emailPromises' = [emailPromises EXCEPT ![i] = st]
    /\ UNCHANGED <<pc, method, today, table, startDate, endDate, reservationsQuery,
                   reservations, usersQuery, users, emailContent, sendLog, responses>>

\* lines 96-122: the join resumes the handler, which counts and responds
Aggregate ==
    /\ pc = "allSettled"
    /\ JoinReady(emailPromises)
    /\ responses' =
           Append(responses,
                  IF JoinRejects(emailPromises)
                  THEN ErrorResponse("Erreur envoi e-mail")
                  ELSE DigestResponse(emailPromises, reservations))
    /\ pc' = "done"
    /\ UNCHANGED <<method, today, table, startDate, endDate, reservationsQuery,
                   reservations, usersQuery, users, emailContent, emailPromises,
                   sendLog>>

Next ==
    \/ Preflight
    \/ ComputeWindow
    \/ ReservationsSettled
    \/ UsersSettled
    \/ Render
    \/ SendEmail
    \/ AwaitAllSettled
    \/ \E i \in 1 .. MaxUsers : Settle(i)
    \/ Aggregate

Spec == Init /\ [][Next]_vars

\* the event loop runs every continuation that is ready, and every store
\* query and every dispatch attempt settles
FairSpec ==
    /\ Spec
    /\ WF_vars(Preflight)
    /\ WF_vars(ComputeWindow)
    /\ WF_vars(ReservationsSettled)
    /\ WF_vars(UsersSettled)
    /\ WF_vars(Render)
    /\ WF_vars(SendEmail)
    /\ WF_vars(AwaitAllSettled)
    /\ \A i \in 1 .. MaxUsers : WF_vars(Settle(i))
    /\ WF_vars(Aggregate)

----------------------------------------------------------------------------
(* Properties *)

Response == responses[1]

\* the run fetched at least one recipient and went on to dispatch
DispatchRun == usersQuery = "done" /\ ~users.isNull /\ Len(users.rows) >= 1

\* the recipients query succeeded with an empty or null list
EmptyUsersRun == usersQuery = "done" /\ (users.isNull \/ Len(users.rows) = 0)

FirstMondayAfter(d) == CHOOSE m \in d + 1 .. d + 7 : WeekDay[m] = 1

\* C1: for every invocation date, the window start is the first Monday
\* strictly after it (a Monday invocation gives the Monday a week later).
C1_StartIsFirstMondayStrictlyAfter ==
    startDate # <<>> => parseISODate(startDate) = FirstMondayAfter(today)

DaysInMonth(y, m) ==
    IF m = 2 THEN (IF DaysInYear(y) = 366 THEN 29 ELSE 28)
    ELSE IF m \in {4, 6, 9, 11} THEN 30 ELSE 31

\* the calendar dates of the years the invocation days lie in
CalendarDates ==
    { c \in (2024 .. 2025) \X (1 .. 12) \X (1 .. 31) : c[3] <= DaysInMonth(c[1], c[2]) }

\* C2: the computed window is a closed range of exactly 7 calendar days, from
\* a Monday to the Sunday 6 days later, also across a month boundary.
C2_WindowIsMondayToSunday ==
    pc = "awaitReservations" =>
        /\ WeekDay[parseISODate(startDate)] = 1
        /\ WeekDay[parseISODate(endDate)] = 0
        /\ parseISODate(endDate) = parseISODate(startDate) + 6
        /\ Cardinality({ c \in CalendarDates :
                           DateLE(startDate, c) /\ DateLE(c, endDate) }) = 7

C2_Witness ==
    /\ pc = "awaitReservations"
    /\ startDate = <<2024, 2, 26>>
    /\ endDate = <<2024, 3, 3>>

C4_QueryErrorAborts ==
    (reservationsQuery = "error" \/ usersQuery = "error") =>
        /\ pc = "done"
        /\ Len(responses) = 1
        /\ Response.status = 500
        /\ DOMAIN Response.body = {"error"}
        /\ ~emailContent.rendered
        /\ sendLog = <<>>
        /\ emailPromises = <<>>

C4_Witness ==
    /\ usersQuery = "error"
    /\ Len(reservations.rows) >= 1
    /\ pc = "done"

Attempts(email) == Cardinality({ i \in DOMAIN sendLog : sendLog[i].to = email })

\* C5: in a run with n >= 1 recipients every recipient gets exactly one
\* dispatch attempt, whichever attempts fail and in whatever order they
\* settle; attempts = n and succeeded + failed = n in the returned tally.
C5_OneAttemptPerRecipient ==
    DispatchRun =>
        /\ \A i \in DOMAIN users.rows : Attempts(users.rows[i].email) <= 1
        /\ pc \in {"allSettled", "done"} =>
               /\ \A i \in DOMAIN users.rows : Attempts(users.rows[i].email) = 1
               /\ Len(sendLog) = Len(users.rows)
               /\ Len(emailPromises) = Len(users.rows)
        /\ pc = "done" =>
               /\ Len(responses) = 1
               /\ "success" \in DOMAIN Response.body
               /\ "failures" \in DOMAIN Response.body
               /\ Response.body.success + Response.body.failures = Len(users.rows)

C5_Witness ==
    /\ DispatchRun
    /\ pc = "done"
    /\ Len(users.rows) >= 3
    /\ emailPromises[1] = "rejected"
    /\ emailPromises[2] = "fulfilled"
    /\ emailPromises[3] = "rejected"

\* C6: a failed dispatch attempt never makes the run fail: with both queries
\* successful and at least one recipient, the run ends with the normal
\* status-200 result even when every attempt fails, each failure counting one
\* in the failure count.
C6_DispatchFailureNotPropagated ==
    (DispatchRun /\ pc = "done") =>
        /\ Len(responses) = 1
        /\ Response.status = 200
        /\ "error" \notin DOMAIN Response.body
        /\ "failures" \in DOMAIN Response.body
        /\ Response.body.failures = Count(emailPromises, "rejected")

C6_Witness ==
    /\ DispatchRun
    /\ pc = "done"
    /\ Len(emailPromises) >= 2
    /\ \A i \in DOMAIN emailPromises : emailPromises[i] = "rejected"

\* C7: the phases are ordered: both queries have completed before rendering,
\* rendering has completed before the first dispatch attempt, and no response
\* exists while a dispatch attempt is still in flight.
C7_PhasesOrdered ==
    /\ (pc = "render" \/ emailContent.rendered) =>
           reservationsQuery = "done" /\ usersQuery = "done"
    /\ sendLog # <<>> =>
           /\ emailContent.rendered
           /\ \A i \in DOMAIN sendLog : sendLog[i].content = emailContent
    /\ (DispatchRun /\ responses # <<>>) =>
           /\ Len(emailPromises) = Len(users.rows)
           /\ \A i \in DOMAIN emailPromises : Settled(emailPromises[i])

C7_Witness ==
    /\ DispatchRun
    /\ responses # <<>>
    /\ Len(emailPromises) >= 2
    /\ emailPromises[1] = "fulfilled"
    /\ emailPromises[2] = "rejected"

\* the rows of the table dated within the computed window, by day number
InWindow ==
    { r \in table :
        /\ parseISODate(startDate) <= parseISODate(r.date_res)
        /\ parseISODate(r.date_res) <= parseISODate(endDate) }

MonthIndex(name) == CHOOSE k \in DOMAIN MonthNames : MonthNames[k] = name

\* the day a rendered date stands for, as a number that grows with the date
BlockDay(b) == (b.date.year * 12 + MonthIndex(b.date.month)) * 31 + b.date.day

BlocksFor(r) ==
    { i \in DOMAIN emailContent.blocks :
        /\ emailContent.blocks[i].kind = "reservation"
        /\ emailContent.blocks[i].client = <<r.prenom, r.nom>> }

\* C8: the digest has exactly one entry per reservation dated in the closed
\* window, in ascending date order, none for a reservation outside it; with
\* no reservation in the window it has the single nothing-scheduled message.
C8_DigestListsWindowReservations ==
    emailContent.rendered =>
        IF InWindow = {}
        THEN /\ Len(emailContent.blocks) = 1
             /\ emailContent.blocks[1].kind = "aucune"
        ELSE /\ Len(emailContent.blocks) = Cardinality(InWindow)
             /\ \A i \in DOMAIN emailContent.blocks :
                    emailContent.blocks[i].kind = "reservation"
             /\ \A r \in InWindow :
                    /\ Cardinality(BlocksFor(r)) = 1
                    /\ \A i \in BlocksFor(r) :
                           /\ emailContent.blocks[i].date.day = r.date_res[3]
                           /\ MonthIndex(emailContent.blocks[i].date.month) = r.date_res[2]
                           /\ emailContent.blocks[i].date.year = r.date_res[1]
             /\ \A r \in table \ InWindow : BlocksFor(r) = {}
             /\ \A i, j \in DOMAIN emailContent.blocks :
                    i < j => BlockDay(emailContent.blocks[i]) <= BlockDay(emailContent.blocks[j])

C8_Witness ==
    /\ emailContent.rendered
    /\ Cardinality(table) = 2
    /\ Cardinality(InWindow) = 1
    /\ \E r \in InWindow : r.date_res = endDate

ResultFields == {"message", "success", "failures", "reservations"}

\* C9 (as amended): a run that reaches aggregation returns a result carrying
\* the number of dispatch attempts that succeeded, the number that failed and
\* the number of reservations fetched for the window, and nothing else but a
\* fixed message: the window boundaries are not part of it.
C9_ResultCarriesCounts ==
    (DispatchRun /\ pc = "done") =>
        /\ Len(responses) = 1
        /\ DOMAIN Response.body = ResultFields
        /\ Response.body.success = Count(emailPromises, "fulfilled")
        /\ Response.body.failures = Count(emailPromises, "rejected")
        /\ Response.body.reservations = Cardinality(InWindow)

C9_Witness ==
    /\ DispatchRun
    /\ pc = "done"
    /\ Len(users.rows) = 3
    /\ Response.body.success = 2
    /\ Response.body.failures = 1
    /\ Response.body.reservations = 2

\* C9 (as stated): ... the result carries the counts and, besides them, the
\* window boundaries (a start date and an end date).
C9_ResultCarriesCountsAndWindow ==
    (DispatchRun /\ pc = "done") =>
        /\ Len(responses) = 1
        /\ ResultFields \subseteq DOMAIN Response.body
        /\ Response.body.success = Count(emailPromises, "fulfilled")
        /\ Response.body.failures = Count(emailPromises, "rejected")
        /\ Response.body.reservations = Cardinality(InWindow)
        /\ \E f, g \in DOMAIN Response.body \ ResultFields : f # g

\* C10: provided every store query and every dispatch attempt settles, every
\* invocation eventually returns, and returns exactly one response.
C10_EventuallyOneResponse ==
    /\ <>[](pc = "done" /\ Len(responses) = 1)
    /\ [](Len(responses) <= 1)

C10_Witness ==
    /\ pc = "done"
    /\ Len(responses) = 1
    /\ Len(emailPromises) >= 2
    /\ \E i \in DOMAIN emailPromises : emailPromises[i] = "rejected"

====
